---- MODULE Spec2Model ----
(***************************************************************************)
(* Model of src/lib.rs: PjsExtension, the typed wrapper around the         *)
(* browser-injected "polkadot-js" wallet extension.                        *)
(*                                                                         *)
(* JavaScript values are records [t, ...]; Rust Strings that the code      *)
(* inspects character by character (hex strings) are sequences of          *)
(* one-character strings, the others (names, addresses, genesis hashes)    *)
(* are TLA+ strings.  A Rust panic (unwrap/expect/get! on a failed         *)
(* Reflect::get) aborts the program: phase becomes "Aborted".              *)
(***************************************************************************)
EXTENDS Integers, Sequences, FiniteSets, TLC

VARIABLES
    injectedWeb3,   \* window.injectedWeb3, the provider registry (a JS value)
    phase,          \* "Unconnected" | "Connected" | "Aborted"
    accounts,       \* PjsExtension.accounts : Vec<Account>
    selected,       \* PjsExtension.selected : Option<u8>
    last            \* the last call: its name, inputs, provider traffic, outcome

vars == <<injectedWeb3, phase, accounts, selected, last>>

-----------------------------------------------------------------------------
(* Bounds of the model *)

\* longest array the provider's accounts.get() resolves with
MaxAccounts == 2
\* longest payload handed to sign
MaxPayload == 1
\* longest byte sequence handed to to_hex
MaxBytes == 2
\* longest string handed to from_hex
MaxHexLen == 4
\* longest buffer handed to from_hex
MaxBuf == 2

(* Program constants *)

\* u8::MAX, the largest index select_account can be given
U8Max == 255
\* length of the signature buffer, [0u8; 64]
SigLen == 64

KSM == "0xb0a8d493285c2df73290dfb7e61f870f17b41801197a149ca93654499ea3dafe"
DOT == "0x91b171bb158e2d3848fa23a9f1c25182fb8e20313b2c1eb49219da7a70ce90c3"
KREIVO == "0xc710a5f16adc17bcd212cff0aedcbf1c1212a043cdc0fb2dcba861efe5305b01"

-----------------------------------------------------------------------------
(* JavaScript values and reflective access *)

Undefined == [t |-> "undefined"]
JsNumber == [t |-> "number"]
JsStr(s) == [t |-> "string", s |-> s]
JsObj(props) == [t |-> "object", props |-> props]
JsArr(items) == [t |-> "array", items |-> items]

\* JsValue::as_string: Some(s) for a JS string, None for anything else
as_string(v) == IF v.t = "string" THEN [some |-> TRUE, s |-> v.s]
                ELSE [some |-> FALSE, s |-> <<>>]

\* Reflect::get (catch): Err when the target is not an object (JS throws a
\* TypeError), otherwise Ok(property value), undefined for a missing key
ReflectGet(target, key) ==
    IF target.t # "object" THEN [ok |-> FALSE, v |-> Undefined]
    ELSE IF key \in DOMAIN target.props
         THEN [ok |-> TRUE, v |-> target.props[key]]
         ELSE [ok |-> TRUE, v |-> Undefined]

\* get!(obj, p1, .., pn): follows the property path; any failed Reflect::get
\* panics (unwrap_or_else(|_| panic!(..)))
RECURSIVE get(_, _)
get(obj, path) ==
    IF path = <<>> THEN [panic |-> FALSE, v |-> obj]
    ELSE LET r == ReflectGet(obj, Head(path))
         IN IF r.ok THEN get(r.v, Tail(path))
            ELSE [panic |-> TRUE, v |-> Undefined]

-----------------------------------------------------------------------------
(* Option<u8>, Result and the record of the last call *)

None == [some |-> FALSE, v |-> 0]
Some(i) == [some |-> TRUE, v |-> i]

NoAccount == [name |-> "", address |-> "", net |-> ""]
NoRequest == [issued |-> FALSE, address |-> "", data |-> <<>>, type |-> ""]

Outcome(kind, err, sig, account, list) ==
    [kind |-> kind, err |-> err, sig |-> sig, account |-> account, list |-> list]

\* Ok(()), Ok(signature), Ok(account) / Some(account), Vec<Account>, None,
\* Err(error) and a panic
Ok == Outcome("ok", "", <<>>, NoAccount, <<>>)
OkSig(s) == Outcome("ok", "", s, NoAccount, <<>>)
OkAccount(a) == Outcome("ok", "", <<>>, a, <<>>)
OkList(l) == Outcome("ok", "", <<>>, NoAccount, l)
Absent == Outcome("none", "", <<>>, NoAccount, <<>>)
Err(e) == Outcome("err", e, <<>>, NoAccount, <<>>)
Panic == Outcome("panic", "", <<>>, NoAccount, <<>>)

\* promise outcomes
Reject == [settled |-> "rejected", v |-> Undefined]
Resolve(v) == [settled |-> "resolved", v |-> v]
NoPromise == [settled |-> "none", v |-> Undefined]

Call(op, idx, payload, promise, request, result) ==
    [op |-> op, idx |-> idx, payload |-> payload, promise |-> promise,
     request |-> request, result |-> result]

-----------------------------------------------------------------------------
(* The host environment *)

\* the handle the enable promise resolves with: signer.signRaw and
\* accounts.get are callable on it
ProviderHandle ==
    JsObj([signer |-> JsObj([signRaw |-> [t |-> "function"]]),
           accounts |-> JsObj([get |-> [t |-> "function"]])])

\* the injected extension object, with its enable entry point
Extension == JsObj([enable |-> [t |-> "function"]])

\* window.injectedWeb3: missing, a registry without the "polkadot-js" key,
\* or a registry holding the extension
Registries ==
    { Undefined,
      JsObj([talisman |-> Extension]),
      JsObj([x \in {"polkadot-js"} |-> Extension]) }

Init ==
    /\ injectedWeb3 \in Registries
    /\ phase = "Unconnected"
    /\ accounts = <<>>
    /\ selected = None
    /\ last = Call("none", 0, <<>>, NoPromise, NoRequest, Ok)

-----------------------------------------------------------------------------
(* PjsExtension::connect *)

\* connect that takes a rejected enable promise for a granted one
connect_ignores_rejection(web3, enablePromise) ==
    IF web3.t \in {"undefined", "null"} THEN Err("ExtensionUnavailable")
    ELSE IF get(web3, <<"polkadot-js", "enable">>).panic THEN Panic
    ELSE Ok

\* the outcome of connect for a registry value and the enable promise
connect(web3, enablePromise) ==
    IF web3.t \in {"undefined", "null"} THEN Err("ExtensionUnavailable")
    ELSE LET pjs == get(web3, <<"polkadot-js">>)
             enable == IF pjs.panic THEN pjs ELSE get(pjs.v, <<"enable">>)
         IN IF enable.panic \/ enable.v.t # "function" THEN Panic
            ELSE IF enablePromise.settled = "rejected" THEN Err("NoPermission")
            ELSE Ok

Connect ==
    /\ phase = "Unconnected"
    /\ \E p \in {Reject, Resolve(ProviderHandle)} :
         LET r == connect(injectedWeb3, p)
         IN /\ last' = Call("connect", 0, <<>>, p, NoRequest, r)
            /\ phase' = CASE r.kind = "ok" -> "Connected"
                          [] r.kind = "panic" -> "Aborted"
                          [] OTHER -> "Unconnected"
            /\ accounts' = <<>>
            /\ selected' = None
            /\ UNCHANGED injectedWeb3

-----------------------------------------------------------------------------
(* Hex Codec: PjsExtension::to_hex and PjsExtension::from_hex *)

HexDigits == <<"0", "1", "2", "3", "4", "5", "6", "7",
               "8", "9", "a", "b", "c", "d", "e", "f">>
UpperDigits == <<"0", "1", "2", "3", "4", "5", "6", "7",
                 "8", "9", "A", "B", "C", "D", "E", "F">>

\* char::to_digit(16): the digit's value, -1 when the character is no hex digit
to_digit(c) ==
    IF \E i \in 1..16 : HexDigits[i] = c
    THEN (CHOOSE i \in 1..16 : HexDigits[i] = c) - 1
    ELSE IF \E i \in 1..16 : UpperDigits[i] = c
    THEN (CHOOSE i \in 1..16 : UpperDigits[i] = c) - 1
    ELSE -1

\* format!("{b:x}"): lowercase hex without a leading zero
fmt_x(b) ==
    IF b < 16 THEN <<HexDigits[b + 1]>>
    ELSE <<HexDigits[(b \div 16) + 1], HexDigits[(b % 16) + 1]>>

RECURSIVE to_hex_from(_, _)
to_hex_from(bytes, s) ==
    IF bytes = <<>> THEN s
    ELSE to_hex_from(Tail(bytes), s \o fmt_x(Head(bytes)))

\* to_hex: "0x" followed by each byte written with {b:x}
to_hex(bytes) == to_hex_from(bytes, <<"0", "x">>)

\* a parse in radix 10
from_str_radix_decimal(s) ==
    LET digits == IF Head(s) = "+" THEN Tail(s) ELSE s
    IN IF \E i \in 1..Len(digits) :
            to_digit(digits[i]) = -1 \/ to_digit(digits[i]) > 9
       THEN 0
       ELSE IF Len(digits) = 1 THEN to_digit(digits[1])
       ELSE 10 * to_digit(digits[1]) + to_digit(digits[2])

\* u8::from_str_radix(s, 16).unwrap_or_default() on a two-character slice:
\* a leading "+" is a sign, every other character must be a hex digit
from_str_radix(s) ==
    LET digits == IF Head(s) = "+" THEN Tail(s) ELSE s
    IN IF \E i \in 1..Len(digits) : to_digit(digits[i]) = -1 THEN 0
       ELSE IF Len(digits) = 1 THEN to_digit(digits[1])
       ELSE 16 * to_digit(digits[1]) + to_digit(digits[2])

\* a decoder that returns at the first pair that does not parse
RECURSIVE from_hex_halting(_, _, _)
from_hex_halting(input, buf, i) ==
    IF i >= Len(buf) THEN buf
    ELSE IF 2 * i + 2 > Len(input) THEN buf
    ELSE LET s == SubSeq(input, 2 * i + 1, 2 * i + 2)
             digits == IF Head(s) = "+" THEN Tail(s) ELSE s
         IN IF \E k \in 1..Len(digits) : to_digit(digits[k]) = -1
            THEN [buf EXCEPT ![i + 1] = 0]
            ELSE from_hex_halting(input,
                                  [buf EXCEPT ![i + 1] = from_str_radix(s)],
                                  i + 1)

\* the loop of from_hex from buffer position i on
RECURSIVE from_hex_at(_, _, _)
from_hex_at(input, buf, i) ==
    IF i >= Len(buf) THEN buf
    ELSE IF 2 * i + 2 > Len(input) THEN buf
    ELSE from_hex_at(input,
                     [buf EXCEPT ![i + 1] =
                         from_str_radix(SubSeq(input, 2 * i + 1, 2 * i + 2))],
                     i + 1)

\* from_hex(input, buf): the buffer after the loop
from_hex(input, buf) == from_hex_at(input, buf, 0)

\* [0u8; n]
Zeros(n) == [i \in 1..n |-> 0]

-----------------------------------------------------------------------------
(* Network classifier and Account *)

\* a classifier whose Kreivo arm is missing
Network_without_kreivo(value) ==
    LET s == as_string(value)
    IN CASE s.some /\ s.s = KSM -> "Kusama"
         [] s.some /\ s.s = DOT -> "Polkadot"
         [] OTHER -> "Generic"

\* impl From<JsValue> for Network
Network(value) ==
    LET s == as_string(value)
    IN CASE s.some /\ s.s = KSM -> "Kusama"
         [] s.some /\ s.s = DOT -> "Polkadot"
         [] s.some /\ s.s = KREIVO -> "Kreivo"
         [] OTHER -> "Generic"

Account(name, address, net) == [name |-> name, address |-> address, net |-> net]

-----------------------------------------------------------------------------
(* PjsExtension::select_account and the accessors *)

Min(a, b) == IF a < b THEN a ELSE b

\* select_account that selects the first slot of an empty list
select_account_empty_zero(accs, idx) ==
    Some(Min(idx, IF Len(accs) = 0 THEN 0 ELSE Len(accs) - 1))

\* select_account that stores the requested index as it is
select_account_unclamped(accs, idx) ==
    IF Len(accs) = 0 THEN None ELSE Some(idx)

\* self.accounts.len().checked_sub(1).map(|i| idx.min(i.min(u8::MAX) as u8))
select_account(accs, idx) ==
    IF Len(accs) = 0 THEN None
    ELSE Some(Min(idx, Min(Len(accs) - 1, U8Max)))

\* current_account that reports a stale index as a missing selection
current_account_stale_unselected(accs, sel) ==
    IF ~sel.some \/ sel.v + 1 > Len(accs) THEN Err("NoAccountSelected")
    ELSE OkAccount(accs[sel.v + 1])

\* self.accounts.get(self.selected.ok_or(NoAccountSelected)?).ok_or(NoAccounts)?
current_account(accs, sel) ==
    IF ~sel.some THEN Err("NoAccountSelected")
    ELSE IF sel.v + 1 > Len(accs) THEN Err("NoAccounts")
    ELSE OkAccount(accs[sel.v + 1])

\* get_selected that answers with the first account whatever the index
get_selected_first(accs, sel) ==
    IF sel.some /\ accs # <<>> THEN OkAccount(accs[1]) ELSE Absent

\* self.selected.and_then(|a| self.accounts.get(a)).cloned()
get_selected(accs, sel) ==
    IF sel.some /\ sel.v + 1 <= Len(accs) THEN OkAccount(accs[sel.v + 1])
    ELSE Absent

SelectAccount ==
    /\ phase = "Connected"
    /\ \E idx \in 0..U8Max :
         /\ selected' = select_account(accounts, idx)
         /\ last' = Call("select_account", idx, <<>>, NoPromise, NoRequest, Ok)
    /\ UNCHANGED <<injectedWeb3, phase, accounts>>

CurrentAccount ==
    /\ phase = "Connected"
    /\ last' = Call("current_account", 0, <<>>, NoPromise, NoRequest,
                    current_account(accounts, selected))
    /\ UNCHANGED <<injectedWeb3, phase, accounts, selected>>

GetSelected ==
    /\ phase = "Connected"
    /\ last' = Call("get_selected", 0, <<>>, NoPromise, NoRequest,
                    get_selected(accounts, selected))
    /\ UNCHANGED <<injectedWeb3, phase, accounts, selected>>

Accounts ==
    /\ phase = "Connected"
    /\ last' = Call("accounts", 0, <<>>, NoPromise, NoRequest, OkList(accounts))
    /\ UNCHANGED <<injectedWeb3, phase, accounts, selected>>

-----------------------------------------------------------------------------
(* PjsExtension::fetch_accounts *)

\* entries the provider's accounts.get() may list: two with a known genesis
\* hash and one without a genesisHash property
Entries ==
    { JsObj([name |-> JsStr("Alice"), address |-> JsStr("5G"),
             genesisHash |-> JsStr(KSM)]),
      JsObj([name |-> JsStr("Bob"), address |-> JsStr("5H"),
             genesisHash |-> JsStr(DOT)]),
      JsObj([name |-> JsStr("Carol"), address |-> JsStr("5C")]) }

\* entries with the third known genesis hash, an unknown one, and one that
\* is not a string
HashEntries ==
    { JsObj([name |-> JsStr("Dave"), address |-> JsStr("5D"),
             genesisHash |-> JsStr(KREIVO)]),
      JsObj([name |-> JsStr("Erin"), address |-> JsStr("5E"),
             genesisHash |-> JsStr("0xdeadbeef")]),
      JsObj([name |-> JsStr("Frank"), address |-> JsStr("5F"),
             genesisHash |-> JsNumber]) }

\* an entry without a name property
Nameless == JsObj([address |-> JsStr("5B"), genesisHash |-> JsStr(KREIVO)])

\* the arrays accounts.get() may resolve with: up to MaxAccounts entries, no
\* entry listed twice, the arrays of one entry of HashEntries, and an array
\* holding the nameless entry
EntryLists ==
    { l \in UNION { [1..n -> Entries] : n \in 0..MaxAccounts } :
        \A i, j \in 1..Len(l) : l[i] = l[j] => i = j }
    \cup { <<e>> : e \in HashEntries }
    \cup { <<Nameless>> }

\* the closure of the map: None when an unwrap or get! panics
parse_entry(a) ==
    LET name == get(a, <<"name">>)
        address == get(a, <<"address">>)
        hash == get(a, <<"genesisHash">>)
    IN IF name.panic \/ address.panic \/ hash.panic
          \/ ~as_string(name.v).some \/ ~as_string(address.v).some
       THEN [panic |-> TRUE, account |-> NoAccount]
       ELSE [panic |-> FALSE,
             account |-> Account(as_string(name.v).s, as_string(address.v).s,
                                 Network(hash.v))]

\* a refresh that appends the fetched accounts to the ones it holds
fetch_merge(accs, new) == accs \o new

\* self.accounts = Array::from(&accounts).iter().map(..).collect(): the
\* account list after a fetch that parsed the accounts new
fetch_replace(accs, new) == new

\* a refresh that never touches the selection
fetch_selected_kept(accs, sel) == sel

\* a refresh that clears the selection when the new list is empty
fetch_selected_cleared(accs, sel) == IF accs # <<>> THEN Some(0) ELSE None

\* if !self.accounts.is_empty() { self.selected = Some(0) }: the selection
\* after the account list was replaced by accs
fetch_selected(accs, sel) == IF accs # <<>> THEN Some(0) ELSE sel

\* a rejected fetch that drops the session's accounts and selection
fetch_rejected_clears(accs, sel) ==
    [result |-> Err("FailedFetchingAccounts"), accounts |-> <<>>, selected |-> None]

\* let Ok(accounts) = JsFuture::from(p).await else { return Err(..) }
fetch_rejected(accs, sel) ==
    [result |-> Err("FailedFetchingAccounts"), accounts |-> accs, selected |-> sel]

\* fetch_accounts for a settled accounts.get() promise: the outcome and the
\* session's fields afterwards
fetch_accounts(accs, sel, promise) ==
    IF promise.settled = "rejected" THEN fetch_rejected(accs, sel)
    ELSE LET arr == promise.v.items
             parsed == [i \in 1..Len(arr) |-> parse_entry(arr[i])]
         IN IF \E i \in 1..Len(arr) : parsed[i].panic
            THEN [result |-> Panic, accounts |-> accs, selected |-> sel]
            ELSE LET new == [i \in 1..Len(arr) |-> parsed[i].account]
                     stored == fetch_replace(accs, new)
                 IN [result |-> Ok, accounts |-> stored,
                     selected |-> fetch_selected(stored, sel)]

FetchAccounts ==
    /\ phase = "Connected"
    /\ \E p \in {Reject} \cup {Resolve(JsArr(l)) : l \in EntryLists} :
         LET r == fetch_accounts(accounts, selected, p)
         IN /\ accounts' = r.accounts
            /\ selected' = r.selected
            /\ phase' = IF r.result.kind = "panic" THEN "Aborted" ELSE phase
            /\ last' = Call("fetch_accounts", 0, <<>>, p, NoRequest, r.result)
    /\ UNCHANGED injectedWeb3

-----------------------------------------------------------------------------
(* PjsExtension::js_sign and PjsExtension::sign *)

\* the closure sign hands to js_sign: decodes the value's string form into the
\* buffer it captured and returns () (undefined on the JS side)
sign_cb(s, captured) ==
    [ret |-> Undefined, captured |-> from_hex(as_string(s).s, captured)]

\* the account lookup of js_sign with the two errors exchanged
sign_account_swapped(accs, sel) ==
    IF ~sel.some THEN Err("NoAccounts")
    ELSE IF sel.v + 1 > Len(accs) THEN Err("NoAccountSelected")
    ELSE OkAccount(accs[sel.v + 1])

\* js_sign's own lookup of the selected account:
\* self.accounts.get(self.selected.ok_or(NoAccountSelected)?).ok_or(NoAccounts)?
sign_account(accs, sel) ==
    IF ~sel.some THEN Err("NoAccountSelected")
    ELSE IF sel.v + 1 > Len(accs) THEN Err("NoAccounts")
    ELSE OkAccount(accs[sel.v + 1])

\* a request that names the account by its display name
sign_request_by_name(account, payload) ==
    [issued |-> TRUE, address |-> account.name, data |-> payload,
     type |-> "bytes"]

\* the request object handed to signRaw
sign_request(account, payload) ==
    [issued |-> TRUE, address |-> account.address, data |-> payload,
     type |-> "bytes"]

\* js_sign with sign's closure as cb, for a settled signRaw promise: the
\* request issued (if any) and the outcome
js_sign(accs, sel, payload, captured, promise) ==
    LET account == sign_account(accs, sel)
    IN IF account.kind = "err" THEN [request |-> NoRequest, result |-> account]
       ELSE LET data == sign_request(account.account, payload)
            IN IF promise.settled = "rejected"
               THEN [request |-> data, result |-> Err("Sign")]
               ELSE LET res == sign_cb(promise.v, captured).ret
                    IN IF get(res, <<"signature">>).panic
                       THEN [request |-> data, result |-> Panic]
                       ELSE [request |-> data, result |-> Ok]

\* sign: the closure is a move closure over the Copy array signature, so it
\* decodes into its own copy; the array returned is the one declared in sign
sign(accs, sel, payload, promise) ==
    LET signature == Zeros(SigLen)
        r == js_sign(accs, sel, to_hex(payload), signature, promise)
    IN IF r.result.kind = "ok"
       THEN [request |-> r.request, result |-> OkSig(signature)]
       ELSE r

PayloadBytes == {7, 171}
Payloads == UNION { [1..n -> PayloadBytes] : n \in 0..MaxPayload }

SigHex == <<"0", "x", "a", "b", "0", "1">>

\* what the signRaw promise may resolve with
SignResponses ==
    { JsObj([signature |-> JsStr(SigHex)]),
      JsObj([signature |-> JsStr(<<"c", "d">>)]),
      JsObj([id |-> JsNumber]),
      Undefined }

\* a sign that forgets the selection when it fails
Sign_dropping_selection ==
    /\ phase = "Connected"
    /\ \E payload \in Payloads, p \in {Reject} \cup {Resolve(v) : v \in SignResponses} :
         LET r == sign(accounts, selected, payload, p)
             settled == IF r.request.issued THEN p ELSE NoPromise
         IN /\ last' = Call("sign", 0, payload, settled, r.request, r.result)
            /\ phase' = IF r.result.kind = "panic" THEN "Aborted" ELSE phase
            /\ selected' = IF r.result.kind = "err" THEN None ELSE selected
    /\ UNCHANGED <<injectedWeb3, accounts>>

Sign ==
    /\ phase = "Connected"
    /\ \E payload \in Payloads, p \in {Reject} \cup {Resolve(v) : v \in SignResponses} :
         LET r == sign(accounts, selected, payload, p)
             \* the promise exists only when signRaw was called
             settled == IF r.request.issued THEN p ELSE NoPromise
         IN /\ last' = Call("sign", 0, payload, settled, r.request, r.result)
            /\ phase' = IF r.result.kind = "panic" THEN "Aborted" ELSE phase
    /\ UNCHANGED <<injectedWeb3, accounts, selected>>

-----------------------------------------------------------------------------
Next ==
    \/ Connect
    \/ SelectAccount
    \/ CurrentAccount
    \/ GetSelected
    \/ Accounts
    \/ FetchAccounts
    \/ Sign

Spec == Init /\ [][Next]_vars

-----------------------------------------------------------------------------
(* The Hex Codec on its own: to_hex and from_hex are associated functions   *)
(* without a session; last holds the argument, then the call and its result *)

ByteValues == {0, 7, 16, 171, 255}
ByteSeqs == UNION { [1..n -> ByteValues] : n \in 0..MaxBytes }

HexChars == {"0", "1", "a", "F", "x", "+"}
HexInputs == UNION { [1..n -> HexChars] : n \in 0..MaxHexLen }

InitHex ==
    /\ injectedWeb3 = Undefined
    /\ phase = "Unconnected"
    /\ accounts = <<>>
    /\ selected = None
    /\ \/ \E bytes \in ByteSeqs :
            last = Call("bytes", 0, bytes, NoPromise, NoRequest, Ok)
       \/ \E input \in HexInputs, n \in 0..MaxBuf :
            last = Call("str", n, input, NoPromise, NoRequest, Ok)

\* to_hex(bytes)
ToHex ==
    /\ last.op = "bytes"
    /\ last' = Call("to_hex", 0, last.payload, NoPromise, NoRequest,
                    OkSig(to_hex(last.payload)))
    /\ UNCHANGED <<injectedWeb3, phase, accounts, selected>>

\* from_hex(input, &mut [0u8; n]) on a given string
FromHex ==
    /\ last.op = "str"
    /\ last' = Call("from_hex", last.idx, last.payload, NoPromise, NoRequest,
                    OkSig(from_hex(last.payload, Zeros(last.idx))))
    /\ UNCHANGED <<injectedWeb3, phase, accounts, selected>>

\* from_hex on the string to_hex just returned, into a buffer as long as the
\* bytes that were encoded
FromHexOfToHex ==
    /\ last.op = "to_hex"
    /\ last' = Call("from_hex", Len(last.payload), last.result.sig, NoPromise,
                    NoRequest,
                    OkSig(from_hex(last.result.sig, Zeros(Len(last.payload)))))
    /\ UNCHANGED <<injectedWeb3, phase, accounts, selected>>

NextHex ==
    \/ ToHex
    \/ FromHex
    \/ FromHexOfToHex

SpecHex == InitHex /\ [][NextHex]_vars

-----------------------------------------------------------------------------
(* Properties *)

\* the selection is present and indexes an account of the list
ValidSelection == selected.some /\ selected.v < Len(accounts)

\* the registry holds the entry of the target extension
HasExtension(web3) == web3.t = "object" /\ "polkadot-js" \in DOMAIN web3.props

\* a signRaw response {signature: h} with h a string
IsSignatureResponse(v) ==
    /\ v.t = "object"
    /\ "signature" \in DOMAIN v.props
    /\ v.props.signature.t = "string"

\* C1: select_account(i) never fails; on a list of length n > 0 the selection
\* becomes min(i, n-1), on an empty list it becomes absent, for every i in
\* 0..255.
C1_SelectClamps ==
    last.op = "select_account" =>
        /\ last.result = Ok
        /\ phase = "Connected"
        /\ IF Len(accounts) > 0
           THEN selected = Some(Min(last.idx, Len(accounts) - 1))
           ELSE selected = None

C1_Witness ==
    /\ last.op = "select_account"
    /\ last.idx = U8Max
    /\ Len(accounts) = 2
    /\ selected = Some(1)

\* C2: a successful fetch_accounts that returns k > 0 accounts leaves the
\* selection at index 0 whatever it was; one that returns 0 accounts leaves
\* the selection exactly as it was before the call.
C2_FetchSelectsDefault ==
    [][ (last'.op = "fetch_accounts" /\ last'.result.kind = "ok") =>
            IF Len(last'.promise.v.items) > 0
            THEN selected' = Some(0)
            ELSE selected' = selected ]_vars

C2_Witness ==
    /\ last.op = "fetch_accounts"
    /\ last.result.kind = "ok"
    /\ last.promise.v.items = <<>>
    /\ selected = Some(1)

\* C3: when the account-listing promise rejects, fetch_accounts returns
\* FailedFetchingAccounts and the account list and the selection are what
\* they were before the call.
C3_RejectedFetchKeepsState ==
    [][ (last'.op = "fetch_accounts" /\ last'.promise.settled = "rejected") =>
            /\ last'.result = Err("FailedFetchingAccounts")
            /\ accounts' = accounts
            /\ selected' = selected ]_vars

C3_Witness ==
    /\ last.op = "fetch_accounts"
    /\ last.promise.settled = "rejected"
    /\ last.result = Err("FailedFetchingAccounts")
    /\ Len(accounts) = 2
    /\ selected = Some(1)

\* C4: when the registry is missing, or lacks the "polkadot-js" entry, connect
\* fails with ExtensionUnavailable and produces no session.
C4_MissingExtensionUnavailable ==
    (last.op = "connect" /\ ~HasExtension(injectedWeb3)) =>
        /\ last.result = Err("ExtensionUnavailable")
        /\ phase = "Unconnected"

\* C5: with the extension present, connect fails with NoPermission and
\* produces no session when the enable promise rejects, and otherwise returns
\* a session with an empty account list and no selection.
C5_ConnectOutcome ==
    (last.op = "connect" /\ HasExtension(injectedWeb3)) =>
        IF last.promise.settled = "rejected"
        THEN last.result = Err("NoPermission") /\ phase = "Unconnected"
        ELSE /\ last.result = Ok
             /\ phase = "Connected"
             /\ accounts = <<>>
             /\ selected = None

C5_Witness ==
    /\ last.op = "connect"
    /\ HasExtension(injectedWeb3)
    /\ last.promise.settled = "rejected"
    /\ last.result = Err("NoPermission")

\* C6: when signRaw resolves with {signature: h}, sign returns the 64-byte
\* buffer obtained by hex-decoding h into a zeroed buffer.
C6_SignReturnsDecodedSignature ==
    (/\ last.op = "sign"
     /\ last.promise.settled = "resolved"
     /\ IsSignatureResponse(last.promise.v)) =>
        last.result =
            OkSig(from_hex(last.promise.v.props.signature.s, Zeros(SigLen)))

\* C7: with a valid selection, sign issues a signRaw request whose address is
\* that of the account at the selected index when sign is called and whose
\* type is "bytes".
C7_SignRequestNamesSelected ==
    (last.op = "sign" /\ ValidSelection) =>
        /\ last.request.issued
        /\ last.request.address = accounts[selected.v + 1].address
        /\ last.request.type = "bytes"

C7_Witness ==
    /\ last.op = "sign"
    /\ selected = Some(1)
    /\ Len(accounts) = 2
    /\ last.request.issued
    /\ last.request.address = accounts[2].address
    /\ accounts[1].address # accounts[2].address

\* C8: sign without a selection fails with NoAccountSelected, sign with a
\* stale selection fails with NoAccounts, and neither issues a signRaw
\* request.
C8_SignWithoutAccount ==
    last.op = "sign" =>
        /\ ~selected.some =>
              last.result = Err("NoAccountSelected") /\ ~last.request.issued
        /\ (selected.some /\ ~ValidSelection) =>
              last.result = Err("NoAccounts") /\ ~last.request.issued

C8_Witness ==
    /\ last.op = "sign"
    /\ selected.some
    /\ accounts = <<>>
    /\ last.result = Err("NoAccounts")
    /\ ~last.request.issued

\* C9: when the signRaw promise rejects, or resolves with a response from
\* which no signature can be extracted, sign fails with Sign and with nothing
\* else.
C9_SignFailsWithSign ==
    (/\ last.op = "sign"
     /\ last.request.issued
     /\ \/ last.promise.settled = "rejected"
        \/ ~IsSignatureResponse(last.promise.v)) =>
        last.result = Err("Sign")

\* C10: current_account returns the account at the selected index when the
\* selection is valid, fails with NoAccountSelected exactly when the selection
\* is absent, and with NoAccounts exactly when it is present but stale.
C10_CurrentAccount ==
    last.op = "current_account" =>
        /\ ValidSelection => last.result = OkAccount(accounts[selected.v + 1])
        /\ last.result = Err("NoAccountSelected") <=> ~selected.some
        /\ last.result = Err("NoAccounts") <=> (selected.some /\ ~ValidSelection)

C10_Witness ==
    /\ last.op = "current_account"
    /\ selected = Some(1)
    /\ accounts = <<>>
    /\ last.result = Err("NoAccounts")

\* the last call was a fetch_accounts that returned normally
FetchedOk == last.op = "fetch_accounts" /\ last.result.kind = "ok"

\* C11: in every reachable session state get_selected never fails; it returns
\* an account exactly when current_account succeeds, and then the same one,
\* and returns absent exactly when current_account fails with
\* NoAccountSelected or NoAccounts.
C11_SelectedAgreesWithCurrent ==
    phase = "Connected" =>
        LET s == get_selected(accounts, selected)
            c == current_account(accounts, selected)
        IN /\ s.kind \in {"ok", "none"}
           /\ s.kind = "ok" <=> c.kind = "ok"
           /\ s.kind = "ok" => s.account = c.account
           /\ s.kind = "none" <=>
                (c.kind = "err" /\ c.err \in {"NoAccountSelected", "NoAccounts"})
           /\ last.op = "get_selected" => last.result = s

C11_Witness ==
    /\ last.op = "get_selected"
    /\ selected = Some(1)
    /\ Len(accounts) = 2
    /\ last.result = OkAccount(accounts[2])

\* the network the specification assigns to a genesisHash property value
ExpectedNetwork(hash) ==
    IF hash = JsStr(KSM) THEN "Kusama"
    ELSE IF hash = JsStr(DOT) THEN "Polkadot"
    ELSE IF hash = JsStr(KREIVO) THEN "Kreivo"
    ELSE "Generic"

\* the genesisHash property of a listed entry, undefined when it has none
HashOf(entry) ==
    IF "genesisHash" \in DOMAIN entry.props THEN entry.props.genesisHash
    ELSE Undefined

\* C12: classification gives Kusama, Polkadot and Kreivo for the three known
\* genesis hashes and Generic for every other string and for an absent or
\* non-string value; a listed entry with a name and an address is stored with
\* that network, and a missing or malformed genesis hash does not fail the
\* fetch.
C12_NetworkClassification ==
    (last.op = "fetch_accounts" /\ last.promise.settled = "resolved") =>
        LET items == last.promise.v.items
        IN (\A i \in 1..Len(items) :
                {"name", "address"} \subseteq DOMAIN items[i].props) =>
             /\ last.result = Ok
             /\ Len(accounts) = Len(items)
             /\ \A i \in 1..Len(items) :
                  accounts[i].net = ExpectedNetwork(HashOf(items[i]))

C12_Witness ==
    /\ FetchedOk
    /\ Len(accounts) = 1
    /\ HashOf(last.promise.v.items[1]) = JsNumber
    /\ accounts[1].net = "Generic"

\* C16: in every reachable state the selection is absent, or indexes an
\* account of the list, or the list is empty.
C16_SelectionInRange ==
    \/ ~selected.some
    \/ selected.v < Len(accounts)
    \/ accounts = <<>>

C16_Witness ==
    /\ last.op = "select_account"
    /\ last.idx = U8Max
    /\ Len(accounts) = 1
    /\ selected = Some(0)

\* C17: from connect on the selection stays absent until the first successful
\* fetch_accounts that returns a non-empty list, whatever select_account
\* calls, failed or empty fetches come before; that fetch makes it index 0.
\* (While no non-empty list was fetched the session holds no account and no
\* selection; a step from such a state either is that fetch or keeps it so.)
C17_AbsentUntilFirstAccounts ==
    /\ accounts = <<>> /\ selected = None
    /\ [][ (accounts = <<>> /\ selected = None) =>
             IF last'.op = "fetch_accounts" /\ last'.result.kind = "ok"
                /\ Len(last'.promise.v.items) > 0
             THEN selected' = Some(0)
             ELSE accounts' = <<>> /\ selected' = None ]_vars

C17_Witness ==
    /\ last.op = "select_account"
    /\ last.idx = U8Max
    /\ accounts = <<>>
    /\ selected = None

\* C18: after each successful fetch_accounts the account list is exactly the
\* sequence of entries the provider returned in that call, in the same order,
\* and holds nothing of an earlier fetch.
C18_FetchReplaces ==
    FetchedOk =>
        LET items == last.promise.v.items
        IN /\ Len(accounts) = Len(items)
           /\ \A i \in 1..Len(items) :
                /\ accounts[i].name = items[i].props.name.s
                /\ accounts[i].address = items[i].props.address.s

C18_Witness ==
    /\ FetchedOk
    /\ last.promise.v.items = <<>>
    /\ accounts = <<>>
    /\ selected = Some(0)

\* C19: sign, current_account, accounts and get_selected leave the account
\* list and the selection as they were, whether they succeed or fail; only
\* select_account and a successful fetch_accounts change them.
C19_ReadOnlyCalls ==
    [][ (accounts' # accounts \/ selected' # selected) =>
            \/ last'.op = "select_account"
            \/ last'.op = "fetch_accounts" /\ last'.result.kind = "ok" ]_vars

C19_Witness ==
    /\ last.op = "sign"
    /\ last.result = Err("Sign")
    /\ Len(accounts) = 2
    /\ selected = Some(1)

\* the value of a hex digit, as the specification reads a character pair
DigitValue ==
    ("0" :> 0) @@ ("1" :> 1) @@ ("2" :> 2) @@ ("3" :> 3) @@ ("4" :> 4) @@
    ("5" :> 5) @@ ("6" :> 6) @@ ("7" :> 7) @@ ("8" :> 8) @@ ("9" :> 9) @@
    ("a" :> 10) @@ ("b" :> 11) @@ ("c" :> 12) @@ ("d" :> 13) @@ ("e" :> 14) @@
    ("f" :> 15) @@ ("A" :> 10) @@ ("B" :> 11) @@ ("C" :> 12) @@ ("D" :> 13) @@
    ("E" :> 14) @@ ("F" :> 15)

IsHexDigit(c) == c \in DOMAIN DigitValue

\* the i-th character pair of a string, i counted from 0
PairAt(input, i) == <<input[2 * i + 1], input[2 * i + 2]>>

\* both characters of the pair are hex digits
IsHexPair(p) == IsHexDigit(p[1]) /\ IsHexDigit(p[2])
PairValue(p) == 16 * DigitValue[p[1]] + DigitValue[p[2]]

\* the pair is a "+" followed by a hex digit
IsSignedDigit(p) == p[1] = "+" /\ IsHexDigit(p[2])

\* the pairs from_hex has both a string position and a buffer position for
Decoded(input, n) == 0..(Min(n, Len(input) \div 2) - 1)

\* C13: encoding a byte sequence with to_hex and decoding the result with
\* from_hex into a buffer of the same length gives the bytes back.
C13_HexRoundTrip ==
    [][ (last.op = "to_hex" /\ last'.op = "from_hex") =>
            last'.result.sig = last.payload ]_vars

\* C14 as claimed: a pair with a non-hex character makes its byte zero and
\* ends the decoding, so that every later byte of the buffer stays zero.
C14_NonHexHalts ==
    last.op = "from_hex" =>
        \A i \in Decoded(last.payload, last.idx) :
            ~IsHexPair(PairAt(last.payload, i)) =>
                \A j \in i..(last.idx - 1) : last.result.sig[j + 1] = 0

\* C14: a pair with a non-hex character makes its byte zero, unless it is a
\* "+" followed by a hex digit, which gives that digit's value; decoding goes
\* on after it, and every later pair of two hex digits that has a buffer
\* position is decoded into its byte.
C14_NonHexZeroedDecodingContinues ==
    last.op = "from_hex" =>
        \A i \in Decoded(last.payload, last.idx) :
            LET p == PairAt(last.payload, i)
            IN /\ (~IsHexPair(p) /\ ~IsSignedDigit(p)) =>
                    last.result.sig[i + 1] = 0
               /\ IsSignedDigit(p) => last.result.sig[i + 1] = DigitValue[p[2]]
               /\ ~IsHexPair(p) =>
                    \A j \in Decoded(last.payload, last.idx) :
                        (j > i /\ IsHexPair(PairAt(last.payload, j))) =>
                            last.result.sig[j + 1] = PairValue(PairAt(last.payload, j))

C14_Witness ==
    /\ last.op = "from_hex"
    /\ last.payload = <<"0", "x", "a", "1">>
    /\ last.idx = 2
    /\ last.result.sig = <<0, 161>>

\* C15: decoding a string shorter than twice the buffer length into a zeroed
\* buffer never fails, gives byte i the value of the i-th complete pair of hex
\* digits for every pair the string has, stops at the first missing pair and
\* leaves every remaining byte zero.
C15_ShortInputZeroPadded ==
    (last.op = "from_hex" /\ Len(last.payload) < 2 * last.idx) =>
        /\ last.result.kind = "ok"
        /\ Len(last.result.sig) = last.idx
        /\ \A i \in 0..(last.idx - 1) :
             IF i < Len(last.payload) \div 2
             THEN IsHexPair(PairAt(last.payload, i)) =>
                    last.result.sig[i + 1] = PairValue(PairAt(last.payload, i))
             ELSE last.result.sig[i + 1] = 0

C15_Witness ==
    /\ last.op = "from_hex"
    /\ last.payload = <<"a", "F", "1">>
    /\ last.idx = 2
    /\ last.result.sig = <<175, 0>>
====
